---- MODULE Spec2Model ----
(***************************************************************************)
(* Model of karma-edge-chromium-launcher (src/index.js): the flag helpers  *)
(* (isJSFlags, sanitizeJSFlags, _getOptions and its headless / canary      *)
(* wrappers), the Windows executable lookup (getEdgeExe) and the launcher  *)
(* lifecycle of one EdgeBrowser instance (_start, the stderr 'data'        *)
(* listener, the 'kill' handler).                                          *)
(*                                                                         *)
(* A JavaScript string is a sequence of one-character strings, so that the *)
(* regular expressions of the source are computed, not assumed.            *)
(***************************************************************************)
EXTENDS Integers, Sequences, FiniteSets

VARIABLES
  \* ---- module-load environment of the instance ----
  isWsl,              \* require('is-wsl')
  variant,            \* which constructor built the instance
  defaultLinux,       \* this.DEFAULT_CMD.linux is truthy (getBin found the binary at load)
  \* ---- closure state of EdgeBrowser ----
  flags0,             \* args.flags as given to the constructor
  flags,              \* the closure's flags array (sanitised in place by _getOptions)
  windowsUsed,        \* let windowsUsed = false
  browserProcessPid,  \* let browserProcessPid (undefined until a match)
  execCommand,        \* what this._execCommand currently is: "function" or "ChildProcess"
  \* ---- launches ----
  launches,           \* number of _start calls so far
  lastStart,          \* inputs and outcome of the latest _start call
  stderr,             \* text the latest launch's process will still write to stderr
  listening,          \* the latest _start attached its 'data' listener
  parsed,             \* PID the listener parsed from the latest launch's stream
  \* ---- kill ----
  kills,              \* number of 'kill' events handled so far
  killRaised,         \* some 'kill' handler raised to the host
  issued,             \* number of termination commands issued so far
  lastCommand,        \* the termination command issued last
  nextTick,           \* process.nextTick queue: done callbacks scheduled, not yet run
  doneCount,          \* per kill event: how often its done callback has run
  \* ---- exported test surface: sanitizeJSFlags applied repeatedly ----
  sanTrace,           \* <<f, sanitize(f), sanitize(sanitize(f)), ...>>
  optsHist,           \* the lists returned by successive _getOptions calls
  \* ---- getEdgeExe ----
  platform,           \* process.platform
  envPrefixes,        \* <<LOCALAPPDATA, PROGRAMFILES, PROGRAMFILES(X86)>>
  existing,           \* indices of the candidates that exist on disk
  edgeDirName,        \* argument of getEdgeExe
  exeResult           \* what getEdgeExe returned

flagVars == <<variant, flags0, flags, sanTrace, optsHist>>
exeVars == <<platform, envPrefixes, existing, edgeDirName, exeResult>>
launchVars == <<defaultLinux, windowsUsed, browserProcessPid, execCommand,
                launches, lastStart, stderr, listening, parsed>>
killVars == <<kills, killRaised, issued, lastCommand, nextTick, doneCount>>
vars == <<isWsl, flagVars, exeVars, launchVars, killVars>>

(***************************************************************************)
(* Bounds of the model.                                                    *)
(***************************************************************************)
MaxTail == 5
MaxListTail == 2
MaxFlags == 2
MaxApply == 2
MaxCalls == 3
MaxLaunches == 2
MaxKills == 2

(***************************************************************************)
(* String constants of the source.                                         *)
(***************************************************************************)
JS_FLAGS_PREFIX ==
  <<"-", "-", "j", "s", "-", "f", "l", "a", "g", "s", "=">>
customFlags ==
  <<"-", "-", "n", "o", "c", "r", "a", "n", "k", "s", "h", "a", "f", "t", " ", "-", "-", "n", "o", "o", "p", "t">>
F_ENABLE_AUTOMATION ==
  <<"-", "-", "e", "n", "a", "b", "l", "e", "-", "a", "u", "t", "o", "m", "a", "t", "i", "o", "n">>
F_NO_DEFAULT_BROWSER_CHECK ==
  <<"-", "-", "n", "o", "-", "d", "e", "f", "a", "u", "l", "t", "-", "b", "r", "o", "w", "s", "e", "r", "-", "c", "h", "e", "c", "k">>
F_NO_FIRST_RUN ==
  <<"-", "-", "n", "o", "-", "f", "i", "r", "s", "t", "-", "r", "u", "n">>
F_DISABLE_DEFAULT_APPS ==
  <<"-", "-", "d", "i", "s", "a", "b", "l", "e", "-", "d", "e", "f", "a", "u", "l", "t", "-", "a", "p", "p", "s">>
F_DISABLE_POPUP_BLOCKING ==
  <<"-", "-", "d", "i", "s", "a", "b", "l", "e", "-", "p", "o", "p", "u", "p", "-", "b", "l", "o", "c", "k", "i", "n", "g">>
F_DISABLE_TRANSLATE ==
  <<"-", "-", "d", "i", "s", "a", "b", "l", "e", "-", "t", "r", "a", "n", "s", "l", "a", "t", "e">>
F_DISABLE_BG_TIMER_THROTTLING ==
  <<"-", "-", "d", "i", "s", "a", "b", "l", "e", "-", "b", "a", "c", "k", "g", "r", "o", "u", "n", "d", "-", "t", "i", "m", "e", "r", "-", "t", "h", "r", "o", "t", "t", "l", "i", "n", "g">>
F_DISABLE_RENDERER_BACKGROUNDING ==
  <<"-", "-", "d", "i", "s", "a", "b", "l", "e", "-", "r", "e", "n", "d", "e", "r", "e", "r", "-", "b", "a", "c", "k", "g", "r", "o", "u", "n", "d", "i", "n", "g">>
F_DISABLE_DEVICE_DISCOVERY ==
  <<"-", "-", "d", "i", "s", "a", "b", "l", "e", "-", "d", "e", "v", "i", "c", "e", "-", "d", "i", "s", "c", "o", "v", "e", "r", "y", "-", "n", "o", "t", "i", "f", "i", "c", "a", "t", "i", "o", "n", "s">>
F_HEADLESS ==
  <<"-", "-", "h", "e", "a", "d", "l", "e", "s", "s">>
F_DISABLE_GPU ==
  <<"-", "-", "d", "i", "s", "a", "b", "l", "e", "-", "g", "p", "u">>
F_DISABLE_DEV_SHM ==
  <<"-", "-", "d", "i", "s", "a", "b", "l", "e", "-", "d", "e", "v", "-", "s", "h", "m", "-", "u", "s", "a", "g", "e">>
F_NO_SANDBOX ==
  <<"-", "-", "n", "o", "-", "s", "a", "n", "d", "b", "o", "x">>
REMOTE_DEBUGGING_PREFIX ==
  <<"-", "-", "r", "e", "m", "o", "t", "e", "-", "d", "e", "b", "u", "g", "g", "i", "n", "g", "-", "p", "o", "r", "t", "=">>
F_REMOTE_DEBUGGING_DEFAULT ==
  <<"-", "-", "r", "e", "m", "o", "t", "e", "-", "d", "e", "b", "u", "g", "g", "i", "n", "g", "-", "p", "o", "r", "t", "=", "9", "2", "2", "2">>
F_REMOTE_DEBUGGING_USER ==
  <<"-", "-", "r", "e", "m", "o", "t", "e", "-", "d", "e", "b", "u", "g", "g", "i", "n", "g", "-", "p", "o", "r", "t", "=", "1", "2", "3", "4">>
F_INCOGNITO ==
  <<"-", "i", "n", "c", "o", "g", "n", "i", "t", "o">>
MARKER ==
  <<"B", "R", "O", "W", "S", "E", "R", "B", "R", "O", "W", "S", "E", "R", "B", "R", "O", "W", "S", "E", "R", "B", "R", "O", "W", "S", "E", "R">>
DEBUG_ME_AT ==
  <<"d", "e", "b", "u", "g", " ", "m", "e", " ", "@", " ">>

(***************************************************************************)
(* String helpers: what String.prototype.indexOf / replace / match do.     *)
(***************************************************************************)
Last(s) == s[Len(s)]

\* s has pat at position i (1-based)
MatchAt(s, pat, i) ==
  /\ i >= 1
  /\ i + Len(pat) - 1 <= Len(s)
  /\ SubSeq(s, i, i + Len(pat) - 1) = pat

\* s.indexOf(pat), 1-based; 0 when absent
IndexOf(s, pat) ==
  LET hits == {i \in 1..(Len(s) + 1) : MatchAt(s, pat, i)}
  IN  IF hits = {} THEN 0 ELSE CHOOSE i \in hits : \A j \in hits : i <= j

\* s.replace(pat, rep) for a literal pattern without the g flag: the first occurrence only
ReplaceFirst(s, pat, rep) ==
  LET i == IndexOf(s, pat)
  IN  IF i = 0 THEN s
      ELSE SubSeq(s, 1, i - 1) \o rep \o SubSeq(s, i + Len(pat), Len(s))

\* s.replace(new RegExp(c + '$'), ''): c only at the very end of the string
ReplaceAtEnd(s, c) ==
  IF Len(s) >= 1 /\ Last(s) = c THEN SubSeq(s, 1, Len(s) - 1) ELSE s

Quotes == {"'", "\""}

\* /--js-flags=(['"])/.exec(flag): the index of the leftmost match, 0 for null
JsFlagsQuoteExec(flag) ==
  LET hits == {i \in 1..Len(flag) :
                 /\ MatchAt(flag, JS_FLAGS_PREFIX, i)
                 /\ i + Len(JS_FLAGS_PREFIX) <= Len(flag)
                 /\ flag[i + Len(JS_FLAGS_PREFIX)] \in Quotes}
  IN  IF hits = {} THEN 0 ELSE CHOOSE i \in hits : \A j \in hits : i <= j

isJSFlags(flag) == IndexOf(flag, JS_FLAGS_PREFIX) = 1

sanitizeJSFlags(flag) ==
  LET test == JsFlagsQuoteExec(flag)
  IN  IF test = 0 THEN flag
      ELSE LET escapeChar == flag[test + Len(JS_FLAGS_PREFIX)]
               startExp == JS_FLAGS_PREFIX \o <<escapeChar>>
           IN  ReplaceAtEnd(ReplaceFirst(flag, startExp, JS_FLAGS_PREFIX), escapeChar)

(***************************************************************************)
(* _getOptions and its wrappers.                                           *)
(***************************************************************************)
Contains(s, pat) == IndexOf(s, pat) # 0

Includes(list, x) == \E i \in 1..Len(list) : list[i] = x

\* flags.forEach((flag, i) => { if (isJSFlags(flag)) flags[i] = sanitizeJSFlags(flag) })
SanitizeInPlace(fl) ==
  [i \in 1..Len(fl) |-> IF isJSFlags(fl[i]) THEN sanitizeJSFlags(fl[i]) ELSE fl[i]]

BaseOptions ==
  <<F_ENABLE_AUTOMATION, F_NO_DEFAULT_BROWSER_CHECK, F_NO_FIRST_RUN,
    F_DISABLE_DEFAULT_APPS, F_DISABLE_POPUP_BLOCKING, F_DISABLE_TRANSLATE,
    F_DISABLE_BG_TIMER_THROTTLING, F_DISABLE_RENDERER_BACKGROUNDING,
    F_DISABLE_DEVICE_DISCOVERY>>

\* EdgeBrowser._getOptions: the returned list (the closure's flags become SanitizeInPlace(fl))
edgeGetOptions(fl) == BaseOptions \o SanitizeInPlace(fl)

\* getHeadlessOptions(url, args, parent), given what parent returned
getHeadlessOptions(parentOptions, wsl) ==
  LET merged == parentOptions \o <<F_HEADLESS, F_DISABLE_GPU, F_DISABLE_DEV_SHM>>
      mergedArgs == IF wsl THEN Append(merged, F_NO_SANDBOX) ELSE merged
      isRemoteDebuggingFlag(flag) == Contains(flag, REMOTE_DEBUGGING_PREFIX)
  IN  IF \E i \in 1..Len(mergedArgs) : isRemoteDebuggingFlag(mergedArgs[i])
      THEN mergedArgs
      ELSE Append(mergedArgs, F_REMOTE_DEBUGGING_DEFAULT)

\* the forEach of getCanaryOptions: the value of augmentedFlags after it (<<>> for undefined)
RECURSIVE AugmentedFlags(_, _)
AugmentedFlags(fl, acc) ==
  IF fl = <<>> THEN acc
  ELSE AugmentedFlags(Tail(fl),
         IF isJSFlags(Head(fl))
         THEN sanitizeJSFlags(Head(fl)) \o <<" ">> \o customFlags
         ELSE acc)

\* getCanaryOptions(url, args, parent): argFlags is args.flags when the function is
\* entered, parentOptions what parent returns
getCanaryOptions(argFlags, parentOptions) ==
  LET augmentedFlags == AugmentedFlags(argFlags, <<>>)
  IN  Append(parentOptions,
             IF augmentedFlags # <<>> THEN augmentedFlags
             ELSE JS_FLAGS_PREFIX \o customFlags)

Variants == {"Edge", "EdgeHeadless", "EdgeCanary", "EdgeCanaryHeadless"}

\* this._getOptions() of an instance of variant v whose flags array holds fl
GetOptions(v, fl, wsl) ==
  CASE v = "Edge" -> edgeGetOptions(fl)
    [] v = "EdgeHeadless" -> getHeadlessOptions(edgeGetOptions(fl), wsl)
    [] v = "EdgeCanary" -> getCanaryOptions(fl, edgeGetOptions(fl))
    [] v = "EdgeCanaryHeadless" ->
         getHeadlessOptions(getCanaryOptions(fl, edgeGetOptions(fl)), wsl)

(***************************************************************************)
(* getEdgeExe.  A path is a record; null and undefined are records of      *)
(* their own kind.                                                         *)
(***************************************************************************)
UNSET == "(unset)"

Null == [kind |-> "null", prefix |-> "", dir |-> ""]
Undefined == [kind |-> "undefined", prefix |-> "", dir |-> ""]
NotCalled == [kind |-> "not called", prefix |-> "", dir |-> ""]

\* path.join(prefix, `Microsoft\\${edgeDirName}\\Application\\msedge.exe`)
JoinSuffix(prefix, dirName) == [kind |-> "string", prefix |-> prefix, dir |-> dirName]

\* the for loop of getEdgeExe from index i on; last is windowsEdgeDirectory so far.
\* path.join throws a TypeError on an undefined prefix, fs.accessSync throws on a
\* missing file; both land in the catch and the loop goes on.
RECURSIVE ProbePrefixes(_, _, _, _, _)
ProbePrefixes(prefixes, exist, dirName, i, last) ==
  IF i > Len(prefixes) THEN last
  ELSE IF prefixes[i] = UNSET
       THEN ProbePrefixes(prefixes, exist, dirName, i + 1, last)
       ELSE LET windowsEdgeDirectory == JoinSuffix(prefixes[i], dirName)
            IN  IF i \in exist THEN windowsEdgeDirectory
                ELSE ProbePrefixes(prefixes, exist, dirName, i + 1, windowsEdgeDirectory)

getEdgeExe(plat, prefixes, exist, dirName) ==
  IF plat # "win32" THEN Null
  ELSE ProbePrefixes(prefixes, exist, dirName, 1, Undefined)

(***************************************************************************)
(* The stderr 'data' listener of _start.                                   *)
(***************************************************************************)
NoPid == -1

Whitespace == {" ", "\t", "\n"}

DigitChars == <<"0", "1", "2", "3", "4", "5", "6", "7", "8", "9">>

DigitVal(c) == (CHOOSE d \in 1..Len(DigitChars) : DigitChars[d] = c) - 1

\* the end of the longest run of characters of class cls that starts at i (i - 1 if none)
RunEnd(s, i, cls) ==
  LET ends == {j \in i..Len(s) : \A k \in i..j : s[k] \in cls}
  IN  IF ends = {} THEN i - 1 ELSE CHOOSE j \in ends : \A k \in ends : k <= j

Digits == {DigitChars[d] : d \in 1..Len(DigitChars)}

\* parseInt(digits, 10)
RECURSIVE parseInt(_)
parseInt(digits) ==
  IF digits = <<>> THEN 0
  ELSE 10 * parseInt(SubSeq(digits, 1, Len(digits) - 1)) + DigitVal(Last(digits))

\* /BROWSERBROWSERBROWSERBROWSER\s+debug me @ (\d+)/ tried at position i:
\* the captured digits, <<>> when the expression does not match there
SentinelAt(s, i) ==
  IF ~MatchAt(s, MARKER, i) THEN <<>>
  ELSE LET ws == i + Len(MARKER)
           wsEnd == RunEnd(s, ws, Whitespace)
           dg == wsEnd + 1 + Len(DEBUG_ME_AT)
           dgEnd == RunEnd(s, dg, Digits)
       IN  IF wsEnd >= ws /\ MatchAt(s, DEBUG_ME_AT, wsEnd + 1) /\ dgEnd >= dg
           THEN SubSeq(s, dg, dgEnd)
           ELSE <<>>

\* errString.match(...): matches[1] of the leftmost match, <<>> for null
SentinelMatch(errString) ==
  LET hits == {i \in 1..Len(errString) : SentinelAt(errString, i) # <<>>}
  IN  IF hits = {} THEN <<>>
      ELSE SentinelAt(errString, CHOOSE i \in hits : \A j \in hits : i <= j)

\* the listener's effect on browserProcessPid for one chunk.  The chunk is decoded
\* on its own (a new StringDecoder per call keeps nothing from earlier chunks) and
\* matched on its own.
OnStderrData(pid, errString) ==
  LET matches == SentinelMatch(errString)
  IN  IF matches # <<>> THEN parseInt(matches) ELSE pid

\* n in decimal
RECURSIVE ToDecimal(_)
ToDecimal(n) ==
  IF n < 10 THEN <<DigitChars[n + 1]>>
  ELSE Append(ToDecimal(n \div 10), DigitChars[(n % 10) + 1])

\* echo >&2 "BROWSERBROWSERBROWSERBROWSER debug me @ $pid"
SentinelLine(pid) == MARKER \o <<" ">> \o DEBUG_ME_AT \o ToDecimal(pid) \o <<"\n">>

(***************************************************************************)
(* _start(url).                                                            *)
(***************************************************************************)
\* !process.env.DISPLAY: the variable is undefined or the empty string
Falsy(envValue) == envValue \in {UNSET, ""}

\* UseBridge without the test for '--headless'
UseBridgeIgnoringHeadless(wsl, linuxCmd, which, options, display) ==
  /\ wsl
  /\ \/ ~linuxCmd \/ ~which
     \/ Falsy(display)

\* the condition under which _start calls useWindowsWSL() rather than useNormal()
\* (which is the result of which.sync(this.DEFAULT_CMD.linux, { nothrow: true }))
UseBridge(wsl, linuxCmd, which, options, display) ==
  /\ wsl
  /\ \/ ~linuxCmd \/ ~which
     \/ ~Includes(options, F_HEADLESS) /\ Falsy(display)

\* which.sync is evaluated only under WSL with a DEFAULT_CMD.linux (|| short-circuits)
ReadsWhich(wsl, linuxCmd) == wsl /\ linuxCmd

\* process.env.DISPLAY is evaluated only when the binary was found and the options
\* hold no '--headless' (&& short-circuits)
ReadsDisplay(wsl, linuxCmd, which, options) ==
  wsl /\ linuxCmd /\ which /\ ~Includes(options, F_HEADLESS)

\* how often one _start calls this._getOptions(): once for the '--headless' test
\* (reached only when the binary was found), once more to build the command line
\* (in useNormal always, in useWindowsWSL only after both wslpath calls succeeded)
GetOptionsCalls(wsl, linuxCmd, which, bridge, translated) ==
  (IF wsl /\ linuxCmd /\ which THEN 1 ELSE 0)
    + (IF ~bridge \/ translated THEN 1 ELSE 0)

\* the closure's flags array after n calls of _getOptions
RECURSIVE FlagsAfterCalls(_, _)
FlagsAfterCalls(fl, n) ==
  IF n = 0 THEN fl ELSE FlagsAfterCalls(SanitizeInPlace(fl), n - 1)

AnnouncedPids == {12}

\* what the process of a launch writes to its stderr: nothing (wmic's reply held no
\* "ProcessId = " line; a browser that prints no such line) or the sentinel line
StderrTexts == {<<>>} \cup {SentinelLine(n) : n \in AnnouncedPids}

Announced(text) ==
  IF text = <<>> THEN NoPid ELSE CHOOSE n \in AnnouncedPids : SentinelLine(n) = text

DisplayValues == {UNSET, "", ":0"}

\* the outcomes of the two execSync('wslpath -w ...') calls of useWindowsWSL
WslpathOutcomes == {"ok", "userDataDir fails", "command fails"}

\* useWindowsWSL(): windowsUsed is set first; either execSync('wslpath -w ...') throws
\* when wslpath exits non-zero, and nothing catches it; otherwise this._execCommand
\* is overwritten with the ChildProcess of the spawned shell
\* useNormal(): this._execCommand(command, ...) is a TypeError once _execCommand
\* holds a ChildProcess
\* A new launch's stream replaces the previous one's.
\* options is what the first this._getOptions() of the call returns.  An input the
\* call does not read is given once, with one value.
Start(options, which, display, wslpath, text) ==
  LET bridge == UseBridge(isWsl, defaultLinux, which, options, display)
      translated == wslpath = "ok"
      raised == IF bridge
                THEN IF translated THEN "none" ELSE "Error: Command failed: wslpath"
                ELSE IF execCommand = "function" THEN "none"
                     ELSE "TypeError: this._execCommand is not a function"
      started == raised = "none"
  IN  /\ launches < MaxLaunches
      /\ ReadsWhich(isWsl, defaultLinux) \/ ~which
      /\ ReadsDisplay(isWsl, defaultLinux, which, options) \/ display = UNSET
      /\ bridge \/ wslpath = "ok"
      /\ started \/ text = <<>>
      /\ launches' = launches + 1
      /\ flags' = FlagsAfterCalls(flags,
                     GetOptionsCalls(isWsl, defaultLinux, which, bridge, translated))
      /\ windowsUsed' = (windowsUsed \/ bridge)
      /\ execCommand' = IF bridge /\ translated THEN "ChildProcess" ELSE execCommand
      /\ listening' = started
      /\ stderr' = IF started THEN text ELSE <<>>
      /\ parsed' = NoPid
      /\ lastStart' = [paths |-> IF bridge THEN {"useWindowsWSL"} ELSE {"useNormal"},
                       command |-> IF bridge THEN "/bin/bash"
                                   ELSE IF isWsl THEN "DEFAULT_CMD.linux"
                                   ELSE "_getCommand()",
                       which |-> IF ~ReadsWhich(isWsl, defaultLinux) THEN "not read"
                                 ELSE IF which THEN "found" ELSE "not found",
                       display |-> IF ReadsDisplay(isWsl, defaultLinux, which, options)
                                   THEN display ELSE "not read",
                       raised |-> raised,
                       announced |-> IF started THEN Announced(text) ELSE NoPid]
      /\ UNCHANGED <<isWsl, variant, flags0, sanTrace, optsHist, defaultLinux,
                     browserProcessPid, exeVars, killVars>>

\* one 'data' event of the stderr of the latest launch carrying the next k characters
StderrData(k) ==
  LET errString == SubSeq(stderr, 1, k)
  IN  /\ listening
      /\ k \in 1..Len(stderr)
      /\ stderr' = SubSeq(stderr, k + 1, Len(stderr))
      /\ browserProcessPid' = OnStderrData(browserProcessPid, errString)
      /\ parsed' = OnStderrData(parsed, errString)
      /\ UNCHANGED <<isWsl, flagVars, exeVars, killVars, defaultLinux, windowsUsed,
                     execCommand, launches, lastStart, listening>>

(***************************************************************************)
(* The 'kill' handler and process.nextTick.                                *)
(***************************************************************************)
\* KillTargets without the test of browserProcessPid
KillTargetsAlways(pid) == TRUE

\* if (browserProcessPid)
KillTargets(pid) == pid # NoPid /\ pid # 0

\* KillRaises without the try / catch
KillRaisesUncaught(targets, throws) == targets /\ throws

\* try { ... } catch (e) { }: whether a throwing termination call leaves the handler
KillRaises(targets, throws) == FALSE

\* process.nextTick(done)
ScheduleDone(queue, done) == Append(queue, done)

NoCommand == [kind |-> "none", pid |-> NoPid, kill |-> 0, parsed |-> NoPid, threw |-> FALSE]

\* throws: the termination call throws (the process is already gone); there is
\* nothing to throw when no call is made.  parsed records, for the properties,
\* what the listener had parsed from the latest launch's stream by then.
Kill(throws) ==
  LET done == kills + 1
      targets == KillTargets(browserProcessPid)
      raises == KillRaises(targets, throws)
  IN  /\ kills < MaxKills
      /\ kills' = done
      /\ targets \/ ~throws
      /\ issued' = IF targets THEN issued + 1 ELSE issued
      /\ lastCommand' = IF targets
                        THEN [kind |-> IF windowsUsed THEN "Taskkill.exe"
                                       ELSE "process.kill",
                              pid |-> browserProcessPid,
                              kill |-> done,
                              parsed |-> parsed,
                              threw |-> throws]
                        ELSE lastCommand
      /\ killRaised' = (killRaised \/ raises)
      /\ nextTick' = IF raises THEN nextTick ELSE ScheduleDone(nextTick, done)
      /\ doneCount' = Append(doneCount, 0)
      /\ UNCHANGED <<isWsl, flagVars, exeVars, launchVars>>

\* the event loop runs the first callback of the nextTick queue
Tick ==
  /\ nextTick # <<>>
  /\ doneCount' = [doneCount EXCEPT ![Head(nextTick)] = @ + 1]
  /\ nextTick' = Tail(nextTick)
  /\ UNCHANGED <<isWsl, flagVars, exeVars, launchVars, kills, killRaised, issued,
                 lastCommand>>

(***************************************************************************)
(* Specification of one launcher instance.                                 *)
(***************************************************************************)
FlagsIdle ==
  /\ sanTrace = <<>>
  /\ optsHist = <<>>

ExeIdle ==
  /\ platform = "linux"
  /\ envPrefixes = <<UNSET, UNSET, UNSET>>
  /\ existing = {}
  /\ edgeDirName = "Edge"
  /\ exeResult = NotCalled

LauncherConstructed ==
  /\ windowsUsed = FALSE
  /\ browserProcessPid = NoPid
  /\ execCommand = "function"
  /\ launches = 0
  /\ lastStart = [paths |-> {}, command |-> "", which |-> "not read",
                  display |-> "not read", raised |-> "none", announced |-> NoPid]
  /\ stderr = <<>>
  /\ listening = FALSE
  /\ parsed = NoPid
  /\ kills = 0
  /\ killRaised = FALSE
  /\ issued = 0
  /\ lastCommand = NoCommand
  /\ nextTick = <<>>
  /\ doneCount = <<>>

LaunchConfigs == {<<"Edge", <<>>>>, <<"EdgeHeadless", <<>>>>, <<"Edge", <<F_HEADLESS>>>>}

Init ==
  /\ isWsl \in BOOLEAN
  /\ defaultLinux \in BOOLEAN
  /\ \E c \in LaunchConfigs : variant = c[1] /\ flags0 = c[2] /\ flags = c[2]
  /\ LauncherConstructed
  /\ FlagsIdle
  /\ ExeIdle

StartStep ==
  LET options == GetOptions(variant, flags, isWsl)
  IN  \E which \in BOOLEAN, display \in DisplayValues, wslpath \in WslpathOutcomes,
         text \in StderrTexts :
        Start(options, which, display, wslpath, text)

\* the chunk sizes tried: the rest of the text in one chunk, a cut inside the marker,
\* a cut before the last digit.  Every other cut leaves the listener with one of
\* the same three outcomes (the whole number, a prefix of it, no match).
ChunkCuts(rest) ==
  {k \in 1..Len(rest) : \/ k = Len(rest)
                        \/ k = Len(MARKER) \div 2 /\ MatchAt(rest, MARKER, 1)
                        \/ k = Len(rest) - 2}

DataStep == \E k \in ChunkCuts(stderr) : StderrData(k)

KillStep == \E throws \in BOOLEAN : Kill(throws)

Next == StartStep \/ DataStep \/ KillStep \/ Tick

Spec == Init /\ [][Next]_vars

(***************************************************************************)
(* Specification of the flag helpers: the exported sanitizeJSFlags applied *)
(* repeatedly to one flag, or _getOptions called repeatedly on an instance *)
(* built with a list of user flags.                                        *)
(***************************************************************************)
TailAlphabet == {"'", "\"", "x"}

Tails(n) == UNION {[1..k -> TailAlphabet] : k \in 0..n}

\* --js-flags=<tail>, the same behind one other character, and two plain flags
TestFlags ==
  {JS_FLAGS_PREFIX \o t : t \in Tails(MaxTail)}
    \cup {<<"x">> \o JS_FLAGS_PREFIX \o t : t \in Tails(MaxTail)}
    \cup {F_HEADLESS, F_INCOGNITO}

ListFlags ==
  {JS_FLAGS_PREFIX \o t : t \in Tails(MaxListTail)}
    \cup {JS_FLAGS_PREFIX \o <<"'", "'", "x", "'", "'">>,
          F_HEADLESS, F_REMOTE_DEBUGGING_USER}

FlagLists == UNION {[1..n -> ListFlags] : n \in 0..MaxFlags}

FlagsInit ==
  /\ defaultLinux = FALSE
  /\ LauncherConstructed
  /\ ExeIdle
  /\ optsHist = <<>>
  /\ \/ /\ \E f \in TestFlags : sanTrace = <<f>>
        /\ isWsl = FALSE
        /\ variant = "Edge"
        /\ flags0 = <<>>
     \/ /\ sanTrace = <<>>
        /\ isWsl \in BOOLEAN
        /\ variant \in Variants
        /\ flags0 \in FlagLists
  /\ flags = flags0

\* test.sanitizeJSFlags applied to the result of the previous application
TestSanitize ==
  /\ sanTrace # <<>>
  /\ Len(sanTrace) <= MaxApply
  /\ sanTrace' = Append(sanTrace, sanitizeJSFlags(Last(sanTrace)))
  /\ UNCHANGED <<isWsl, variant, flags0, flags, optsHist, exeVars, launchVars, killVars>>

\* this._getOptions() on the instance
CallGetOptions ==
  /\ sanTrace = <<>>
  /\ Len(optsHist) < MaxCalls
  /\ optsHist' = Append(optsHist, GetOptions(variant, flags, isWsl))
  /\ flags' = SanitizeInPlace(flags)
  /\ UNCHANGED <<isWsl, variant, flags0, sanTrace, exeVars, launchVars, killVars>>

FlagsNext == TestSanitize \/ CallGetOptions

FlagsSpec == FlagsInit /\ [][FlagsNext]_vars

(***************************************************************************)
(* Specification of getEdgeExe: one call in an arbitrary environment.      *)
(***************************************************************************)
Platforms == {"win32", "linux", "darwin"}

EdgeDirNames == {"Edge", "Edge Beta", "Edge Dev", "Edge SxS"}

PrefixValues ==
  <<{UNSET, "C:\\Users\\u\\AppData\\Local"},
    {UNSET, "C:\\Program Files"},
    {UNSET, "C:\\Program Files (x86)"}>>

ExeInit ==
  /\ isWsl = FALSE
  /\ defaultLinux = FALSE
  /\ variant = "Edge"
  /\ flags0 = <<>>
  /\ flags = <<>>
  /\ FlagsIdle
  /\ LauncherConstructed
  /\ platform \in Platforms
  /\ edgeDirName \in EdgeDirNames
  /\ envPrefixes \in PrefixValues[1] \X PrefixValues[2] \X PrefixValues[3]
  /\ existing \in SUBSET {i \in 1..3 : envPrefixes[i] # UNSET}
  /\ exeResult = NotCalled

CallGetEdgeExe ==
  /\ exeResult = NotCalled
  /\ exeResult' = getEdgeExe(platform, envPrefixes, existing, edgeDirName)
  /\ UNCHANGED <<isWsl, flagVars, launchVars, killVars, platform, envPrefixes,
                 existing, edgeDirName>>

ExeNext == CallGetEdgeExe

ExeSpec == ExeInit /\ [][ExeNext]_vars

(***************************************************************************)
(* Properties.                                                             *)
(***************************************************************************)
Count(queue, x) == Cardinality({i \in 1..Len(queue) : queue[i] = x})

\* C1: handling a 'kill' event never raises to the host and schedules its done
\* callback exactly once, on the next tick: after the handler the callback is in
\* the nextTick queue once and has not run; at any time, queued plus run is one.
C1_KillSchedulesDoneOnce ==
  /\ [](/\ ~killRaised
        /\ \A k \in 1..kills : Count(nextTick, k) + doneCount[k] = 1)
  /\ [][kills' = kills + 1 =>
          /\ ~killRaised'
          /\ Count(nextTick', kills') = 1
          /\ doneCount'[kills'] = 0]_vars

\* a first kill found no PID, a second kill found one and its termination call
\* threw; both callbacks have run
C1_Witness ==
  /\ kills = 2
  /\ issued = 1
  /\ lastCommand.kill = 2
  /\ lastCommand.threw
  /\ doneCount = <<1, 1>>

\* C2: a kill that fires before any sentinel has been matched issues no termination
\* command and schedules its callback in the same step (it does not wait for the
\* PID); and a stderr chunk never issues a termination command, whether it comes
\* before or after a kill: commands are issued by kill handlers only.
C2_KillBeforePidIsNoOp ==
  [][/\ (kills' = kills + 1 /\ browserProcessPid = NoPid) =>
          /\ issued' = issued
          /\ lastCommand' = lastCommand
          /\ Count(nextTick', kills') = 1
          /\ ~killRaised'
     /\ (issued' # issued \/ lastCommand' # lastCommand) => kills' = kills + 1]_vars

\* the kill came first, its callback ran, the sentinel was matched afterwards, and
\* no command has been issued
C2_Witness ==
  /\ launches = 1
  /\ kills >= 1
  /\ nextTick = <<>>
  /\ doneCount[1] = 1
  /\ browserProcessPid # NoPid
  /\ browserProcessPid = parsed
  /\ issued = 0

\* C3: every termination command targets the PID parsed from the error stream of
\* the launch being killed (so none is issued when that stream had no sentinel).
C3_KillTargetsOwnLaunch ==
  issued >= 1 => lastCommand.pid = lastCommand.parsed

\* C4: neither _start nor the kill handler raises an exception to the host.
C4_NothingRaised ==
  /\ lastStart.raised = "none"
  /\ ~killRaised

\* C9: on a bridged launch, once the whole error stream has been delivered, the
\* stored PID is the announced number.
C9_PidRecoveredFromAnyChunking ==
  (/\ lastStart.paths = {"useWindowsWSL"}
   /\ lastStart.announced # NoPid
   /\ stderr = <<>>)
    => browserProcessPid = lastStart.announced

\* C10: a start takes the bridge path iff it runs under WSL and the Linux binary is
\* absent, or present while the options hold no '--headless' and DISPLAY names no
\* display (unset or empty); otherwise it takes the native path, under WSL with the
\* Linux binary as command; each start takes exactly one path.
C10_BridgeDecision ==
  launches >= 1 =>
    LET headless == Includes(GetOptions(variant, flags, isWsl), F_HEADLESS)
        absent == ~defaultLinux \/ lastStart.which = "not found"
        noDisplay == lastStart.display \in {UNSET, ""}
        bridge == isWsl /\ (absent \/ (~headless /\ noDisplay))
    IN  /\ Cardinality(lastStart.paths) = 1
        /\ lastStart.paths = {"useWindowsWSL"} <=> bridge
        /\ ~bridge => /\ lastStart.paths = {"useNormal"}
                      /\ isWsl => lastStart.command = "DEFAULT_CMD.linux"
                      /\ ~isWsl => lastStart.command = "_getCommand()"

\* under WSL the Linux binary is there, the options hold no '--headless', DISPLAY is
\* unset, and the start took the bridge
C10_Witness ==
  /\ isWsl
  /\ defaultLinux
  /\ lastStart.which = "found"
  /\ lastStart.display = UNSET
  /\ lastStart.paths = {"useWindowsWSL"}

\* the quote stripping the specification describes: --js-flags= followed by a quote
\* and closed by the same quote at the end loses both; anything else is unchanged
RefSanitize(flag) ==
  LET n == Len(JS_FLAGS_PREFIX)
  IN  IF /\ Len(flag) >= n + 2
         /\ SubSeq(flag, 1, n) = JS_FLAGS_PREFIX
         /\ flag[n + 1] \in Quotes
         /\ Last(flag) = flag[n + 1]
      THEN JS_FLAGS_PREFIX \o SubSeq(flag, n + 2, Len(flag) - 1)
      ELSE flag

\* C5: sanitizeJSFlags is idempotent, and repeated _getOptions calls on an instance
\* return the same list.
C5_SanitizeIdempotent ==
  /\ Len(sanTrace) >= 3 => sanTrace[3] = sanTrace[2]
  /\ \A i \in 1..Len(optsHist) : optsHist[i] = optsHist[1]

\* C6: sanitizeJSFlags agrees with the reference quote stripping.
C6_SanitizeMatchesReference ==
  Len(sanTrace) >= 2 => sanTrace[2] = RefSanitize(sanTrace[1])

\* C7: on win32 getEdgeExe returns the first candidate that exists; when none does
\* it returns the last candidate it probed, a string, never null or undefined.
C7_EdgeExeBestGuess ==
  (platform = "win32" /\ exeResult # NotCalled) =>
    LET set == {i \in 1..3 : envPrefixes[i] # UNSET}
        candidate(i) == JoinSuffix(envPrefixes[i], edgeDirName)
    IN  /\ exeResult.kind = "string"
        /\ existing # {} =>
             exeResult = candidate(CHOOSE i \in existing : \A j \in existing : i <= j)
        /\ (existing = {} /\ set # {}) =>
             exeResult = candidate(CHOOSE i \in set : \A j \in set : j <= i)

\* C8: the options of EdgeCanary hold exactly one --js-flags= entry: the user's flag
\* with its quotes stripped and ' --nocrankshaft --noopt' appended, or
\* '--js-flags=--nocrankshaft --noopt' when the user gave none.
C8_CanaryExactlyOneJsFlags ==
  variant = "EdgeCanary" =>
    \A i \in 1..Len(optsHist) :
      LET opts == optsHist[i]
          js == {j \in 1..Len(opts) : isJSFlags(opts[j])}
          user == {j \in 1..Len(flags0) : isJSFlags(flags0[j])}
      IN  /\ Cardinality(js) = 1
          /\ \A j \in js :
               IF user = {} THEN opts[j] = JS_FLAGS_PREFIX \o customFlags
               ELSE \E u \in user :
                      opts[j] = RefSanitize(flags0[u]) \o <<" ">> \o customFlags

====
